---- MODULE Spec2Model ----
(***************************************************************************)
(* Model of the whitepaper generator of GeoGame:                           *)
(*   - generateWhitepaperPDF, the page layout loop of                      *)
(*     src/app/api/whitepaper/generate/route.ts (SpecPdf);                 *)
(*   - POST, the request handler of the same file (SpecPost);              *)
(*   - the page-count field of the WhitepaperGenerator component,          *)
(*     src/unnamed/part_001 (SpecClient);                                  *)
(*   - the download history of DownloadsMenu, src/unnamed/part_002         *)
(*     (SpecDownloads);                                                    *)
(*   - POST of the media-generation route, src/unnamed/part_000            *)
(*     (SpecMedia);                                                        *)
(*   - image placement in generateWhitepaperDOCX and                       *)
(*     generateWhitepaperPPT, run next to the PDF layout (SpecGenerators). *)
(* Lengths are in tenths of a PDF point, so that 21.6pt and 20.8pt line    *)
(* heights and the 316.8pt image cap are integers.                         *)
(***************************************************************************)
EXTENDS Integers, Sequences, FiniteSets, TLC

VARIABLES
    \* ---- generateWhitepaperPDF ----
    pdfPc,               \* "para": top of the paragraph loop, "word": in the word loop, "done"
    images,              \* the images argument: sequence of [pageIndex, w, h, ok]
    nParas,              \* paragraphs.length
    i,                   \* index of the paragraph loop
    kind,                \* heading level of paragraph i: "h1", "h2", "h3" or "body"
    words,               \* the words of paragraph i not yet visited (their widths)
    currentLine,         \* the line being filled (widths of its words)
    yPosition,           \* vertical cursor
    currentPageIndex,    \* 0-based index of currentPage
    imagesPlacedOnPage,  \* Set<number> of page indices that got their image
    \* history of what has been drawn (not program state)
    lastText,            \* the latest drawText call: [y, lineHeight, page], or NoDraw
    drawnImages,         \* every drawImage call, in order: [target, page, afterText, shifted, entryY]
    textOnPage,          \* whether a line has been drawn on currentPage
    paraWords,           \* all words of paragraph i
    lines,               \* the lines drawn for paragraph i
    linesDrawn,          \* number of drawText calls so far
    headingsSeen,        \* number of rendered heading paragraphs so far
    visited,             \* number of loop iterations begun
    wordsVisited,        \* iterations of the word loop run for paragraph i
    paraPages,           \* pages added during the current loop iteration
    \* ---- POST /api/whitepaper/generate ----
    postPc,              \* position of the handler
    req,                 \* the request: body kind and the fields read from it
    whitepaperContent,   \* the generated text, or NoContent before it exists
    currentWords,        \* word count inside the continuation loop
    continuationRound,   \* rounds of the continuation loop completed
    fwIdx,               \* position of "for (const frameworkId of frameworks)"
    groupIndex,          \* outer loop of the image placement
    imgInGroup,          \* inner loop of the image placement
    imageRequests,       \* page index of every generateImage call, in order
    imagesLen,           \* images.length
    announced,           \* totalImages as logged, or -1 when nothing is announced
    embedCalls,          \* getEmbedding calls made
    pineconeCalls,       \* queryPinecone calls made
    chatCalls,           \* chatCompletion calls made
    continuationCalls,   \* of which made by the continuation loop
    generatorCalled,     \* which document generator was called, "none" if none
    generated,           \* the content as it reached the emptiness check (history)
    chatFailed,          \* whether the initial chatCompletion call threw (history)
    pineconeFailed,      \* history: some queryPinecone call has failed
    fwEmbedded,          \* history: the framework ids getEmbedding was called for
    fwQueried,           \* history: the framework ids queryPinecone was called for
    response,            \* the response returned, NoResponse before
    \* ---- WhitepaperGenerator (client component) ----
    numPages,            \* the numPages state
    prompt,              \* the prompt state
    sentNumPages,        \* numPages of the latest request body, NotSent before
    \* ---- DownloadsMenu: the download history in localStorage ----
    stored,              \* the list under STORAGE_KEY
    saves,               \* saveFileToDownloads calls so far (also the clock of ids)
    deletes,             \* deleteDownloadedFile calls so far
    \* ---- POST /api/media: the media-generation route ----
    mediaPc,             \* position in the handler
    mediaReq,            \* the request and the two API keys of the environment
    mediaCalls,          \* history: the calls to Gemini and OpenAI, in order, with their outcome
    mediaResponse,       \* the response, NoMediaResponse before
    \* ---- generateWhitepaperDOCX and generateWhitepaperPPT ----
    genPc,               \* "idle", "docx" or "ppt" (in the paragraph loop), "done"
    docImages,           \* the images argument
    docParas,            \* paragraphs: for each, whether it starts with '#'
    numSlides,           \* the third argument of generateWhitepaperPPT
    docI,                \* index of the paragraph loop
    imagesPlaced,        \* Set<number> of page indices whose image was placed
    currentSlideIndex,   \* PPT: the slide counter
    slideNo,             \* PPT: 0-based position of the current slide in the deck
    placements           \* history: every placeholder pushed / image added: [target, at]

pdfVars == <<pdfPc, images, nParas, i, kind, words, currentLine, yPosition,
             currentPageIndex, imagesPlacedOnPage, lastText, drawnImages,
             textOnPage, paraWords, lines, linesDrawn, headingsSeen, visited,
             wordsVisited, paraPages>>

postVars == <<postPc, req, whitepaperContent, currentWords, continuationRound, fwIdx,
              groupIndex, imgInGroup, imageRequests, imagesLen, announced, embedCalls,
              pineconeCalls, chatCalls, continuationCalls, generatorCalled, generated,
              chatFailed, response, pineconeFailed, fwEmbedded, fwQueried>>

groundingHist == <<pineconeFailed, fwEmbedded, fwQueried>>

clientVars == <<numPages, prompt, sentNumPages>>

dlVars == <<stored, saves, deletes>>

mediaVars == <<mediaPc, mediaReq, mediaCalls, mediaResponse>>

genVars == <<genPc, docImages, docParas, numSlides, docI, imagesPlaced,
             currentSlideIndex, slideNo, placements>>

vars == <<pdfVars, postVars, clientVars, dlVars, mediaVars, genVars>>

nonPdfVars == <<postVars, clientVars, dlVars, mediaVars, genVars>>
nonPostVars == <<pdfVars, clientVars, dlVars, mediaVars, genVars>>
nonClientVars == <<pdfVars, postVars, dlVars, mediaVars, genVars>>
nonDlVars == <<pdfVars, postVars, clientVars, mediaVars, genVars>>
nonMediaVars == <<pdfVars, postVars, clientVars, dlVars, genVars>>
nonGenVars == <<pdfVars, postVars, clientVars, dlVars, mediaVars>>

-----------------------------------------------------------------------------
(* Bounds of the model *)

MaxParas == 4           \* paragraphs in a document
LongLen == 17           \* words of the long paragraph (each fills a line)
TextWords == 400        \* words of a substantial model response
MaxImageCalls == 6      \* image requests a modelled request may announce
MaxInputLen == 3        \* characters typed into the page-count field
MaxSaves == 52          \* saveFileToDownloads calls
MaxDeletes == 1         \* deleteDownloadedFile calls
MaxDocxParas == 101     \* paragraphs of a DOCX document (three estimated pages)
MaxPptParas == 4        \* paragraphs of a PPT document
MaxSlides == 4          \* numSlides of a PPT document

-----------------------------------------------------------------------------
(* generateWhitepaperPDF: layout constants, tenths of a point *)

pageWidth == 6120
pageHeight == 7920
margin == 720
topMargin == 720
bottomMargin == 720
bodyLineHeight == 180
headingLineHeight == 216
subHeadingLineHeight == 208
paragraphSpacing == 160
headingTopMargin == 240
headingBottomMargin == 120
subHeadingTopMargin == 200
subHeadingBottomMargin == 100

\* The handler before the request arrives (and while only the layout runs).
NoContent == [real |-> 0, mark |-> 0, ws |-> FALSE, none |-> TRUE]
NoFreq == [c |-> 0, p |-> 0, parsed |-> FALSE]
NoRequest == [body |-> "none", prompt |-> "absent", outputFormat |-> "absent",
              numPages |-> 0, freq |-> NoFreq, frameworks |-> <<>>]
NoResponse == [status |-> 0, error |-> "", mimeType |-> "", fileExtension |-> "",
               document |-> "", at |-> ""]

PostAtRest ==
    /\ req = NoRequest
    /\ whitepaperContent = NoContent
    /\ generated = NoContent
    /\ chatFailed = FALSE
    /\ currentWords = 0
    /\ continuationRound = 0
    /\ fwIdx = 1
    /\ groupIndex = 0
    /\ imgInGroup = 0
    /\ imageRequests = <<>>
    /\ imagesLen = 0
    /\ announced = 0 - 1
    /\ embedCalls = 0
    /\ pineconeCalls = 0
    /\ chatCalls = 0
    /\ continuationCalls = 0
    /\ generatorCalled = "none"
    /\ response = NoResponse
    /\ pineconeFailed = FALSE
    /\ fwEmbedded = {}
    /\ fwQueried = {}

NotSent == 0 - 1

ClientAtRest ==
    /\ numPages = 10
    /\ prompt = ""
    /\ sentNumPages = NotSent

DownloadsAtRest ==
    /\ stored = <<>>
    /\ saves = 0
    /\ deletes = 0

\* The media route before a request arrives.
NoMediaRequest == [body |-> "none", prompt |-> "absent", type |-> "absent",
                   googleApiKey |-> FALSE, openaiApiKey |-> FALSE]
NoMediaResponse == [status |-> 0, model |-> "", type |-> "", error |-> ""]

MediaAtRest ==
    /\ mediaPc = "idle"
    /\ mediaReq = NoMediaRequest
    /\ mediaCalls = <<>>
    /\ mediaResponse = NoMediaResponse

\* The DOCX and PPT generators before they are called.
GeneratorsAtRest ==
    /\ genPc = "idle"
    /\ docImages = <<>>
    /\ docParas = <<>>
    /\ numSlides = 0
    /\ docI = 0
    /\ imagesPlaced = {}
    /\ currentSlideIndex = 0
    /\ slideNo = 0
    /\ placements = <<>>

maxImageWidth == pageWidth - (margin * 2)
maxImageHeight == (pageHeight * 4) \div 10
FreshY == pageHeight - topMargin

Kinds == {"h1", "h2", "h3", "body"}
IsAnyHeading(k) == k \in {"h1", "h2", "h3"}

\* Width of one space in Helvetica (278/1000 em) at 18, 16, 14 and 12 pt.
SpaceWidth(k) ==
    IF k = "h1" THEN 50 ELSE IF k = "h2" THEN 44 ELSE IF k = "h3" THEN 39 ELSE 33

RECURSIVE SumSeq(_)
SumSeq(s) == IF s = <<>> THEN 0 ELSE Head(s) + SumSeq(Tail(s))

\* font.widthOfTextAtSize of the words of a line joined by single spaces
widthOfTextAtSize(line, k) ==
    IF line = <<>> THEN 0 ELSE SumSeq(line) + (Len(line) - 1) * SpaceWidth(k)

\* requiredLineHeight / lineHeight: h3 uses the body line height
LineHeightOf(k) ==
    IF k = "h1" THEN headingLineHeight
    ELSE IF k = "h2" THEN subHeadingLineHeight ELSE bodyLineHeight

TopSpacingOf(k) ==
    IF k = "h1" THEN headingTopMargin
    ELSE IF k \in {"h2", "h3"} THEN subHeadingTopMargin ELSE 0

BottomSpacingOf(k) ==
    IF k = "h1" THEN headingBottomMargin
    ELSE IF k \in {"h2", "h3"} THEN subHeadingBottomMargin ELSE paragraphSpacing

\* Mutant: the page-break test forgets the height of the line to draw.
NeedsNewPageNoLine(y, lh) == y < bottomMargin

\* "if (yPosition - lineHeight < bottomMargin)": the page-break test before a line
NeedsNewPage(y, lh) == y - lh < bottomMargin

\* "if (yPosition - topSpacing < bottomMargin + bodyLineHeight)"
HeadingNeedsNewPage(y, topSpacing) == y - topSpacing < bottomMargin + bodyLineHeight

\* "if (textWidth > width - (margin * 2))"
TooWide(line, k) == widthOfTextAtSize(line, k) > pageWidth - (margin * 2)

\* An entry of the images argument. w and h are the size of the decoded
\* image; ok says whether embedPng or embedJpg can embed its bytes.
Img(p, w, h, ok) == [pageIndex |-> p, w |-> w, h |-> h, ok |-> ok]

\* Image sizes whose scaling is exact in integers: 100x100pt (kept as is),
\* 936x400pt (halved to 468x200), 100x1000pt (capped to 316.8 high).
SmallImg(p) == Img(p, 1000, 1000, TRUE)
WideImg(p) == Img(p, 9360, 4000, TRUE)
TallImg(p) == Img(p, 1000, 10000, TRUE)
BadImg(p) == Img(p, 1000, 1000, FALSE)

\* The images arguments the model supplies.
ImageInputs ==
    { <<>>,
      <<TallImg(1)>>,
      <<SmallImg(0), WideImg(1)>>,
      <<TallImg(1), SmallImg(1), TallImg(2)>>,
      <<WideImg(2), BadImg(1)>>,
      <<SmallImg(3), TallImg(2), TallImg(1)>> }

\* Mutant: the image is scaled to the text width but not capped in height.
ScaledHeightNoCap(img) ==
    IF img.w > maxImageWidth THEN (img.h * maxImageWidth) \div img.w ELSE img.h

\* The height of the image after both "scale down if too large" steps
ScaledHeight(img) ==
    LET h1 == IF img.w > maxImageWidth THEN (img.h * maxImageWidth) \div img.w ELSE img.h
    IN  IF h1 > maxImageHeight THEN maxImageHeight ELSE h1

\* "if (yPosition - imageHeight - paragraphSpacing < bottomMargin)"
ImageNeedsNewPage(y, imageHeight) == y - imageHeight - paragraphSpacing < bottomMargin

\* images.find(img => img.pageIndex === pageIndex): index of the first match, 0 if none
RECURSIVE FindFrom(_, _, _)
FindFrom(imgs, pageIndex, n) ==
    IF n > Len(imgs) THEN 0
    ELSE IF imgs[n].pageIndex = pageIndex THEN n
    ELSE FindFrom(imgs, pageIndex, n + 1)

FindImage(imgs, pageIndex) == FindFrom(imgs, pageIndex, 1)

NoDraw == [y |-> 0, lineHeight |-> 0, page |-> 0 - 1]

\* A cursor: what a page break and placeImageIfNeeded read and write.
Cursor(y, page, placed, drawn, onPage, added) ==
    [y |-> y, page |-> page, placed |-> placed, drawn |-> drawn, onPage |-> onPage,
     added |-> added]

\* placeImageIfNeeded(pageIndex), entered with cursor c (lines 215-291)
placeImageIfNeeded(c, pageIndex) ==
    IF pageIndex \in c.placed THEN c
    ELSE LET n == FindImage(images, pageIndex) IN
      IF n = 0 THEN c
      ELSE IF ~images[n].ok THEN c
      ELSE LET imageHeight == ScaledHeight(images[n])
               shift == ImageNeedsNewPage(c.y, imageHeight)
               y0 == IF shift THEN FreshY ELSE c.y
               p0 == IF shift THEN c.page + 1 ELSE c.page
               on0 == IF shift THEN FALSE ELSE c.onPage
               a0 == IF shift THEN c.added + 1 ELSE c.added
           IN  Cursor(y0 - imageHeight - (paragraphSpacing * 3) \div 2,
                      p0,
                      c.placed \cup {pageIndex},
                      Append(c.drawn, [target |-> pageIndex, page |-> p0,
                                       afterText |-> on0, shifted |-> shift,
                                       entryY |-> c.y]),
                      on0, a0)

\* "currentPage = pdfDoc.addPage(...); yPosition = height - topMargin;
\*  currentPageIndex++; await placeImageIfNeeded(currentPageIndex);"
NewPage(c) ==
    placeImageIfNeeded(Cursor(FreshY, c.page + 1, c.placed, c.drawn, FALSE, c.added + 1),
                       c.page + 1)

Here == Cursor(yPosition, currentPageIndex, imagesPlacedOnPage, drawnImages, textOnPage,
               paraPages)

SetCursor(c) ==
    /\ yPosition' = c.y
    /\ currentPageIndex' = c.page
    /\ imagesPlacedOnPage' = c.placed
    /\ drawnImages' = c.drawn
    /\ textOnPage' = c.onPage
    /\ paraPages' = c.added

cursorVars == <<yPosition, currentPageIndex, imagesPlacedOnPage, drawnImages, textOnPage,
                paraPages>>

\* What heading detection and cleaning (lines 301-338, 394) make of a
\* paragraph: its heading level and the widths of its words.
Para(k, ws) == [kind |-> k, ws |-> ws]

Short == 2000       \* a word of which two fit on a line
Wide == 5000        \* a word wider than the text area

\* The paragraphs the model supplies: one whose cleaned text is empty, a long
\* body paragraph, a wrapping one, and headings of each level. The words of a
\* paragraph differ slightly in width, which tells them apart.
ParaInputs ==
    { Para("body", <<>>),
      Para("body", [n \in 1..LongLen |-> Wide + n]),
      Para("body", <<Short, Short + 1, Short + 2>>),
      Para("h1", <<Short, Short + 1, Short + 2>>),
      Para("h2", <<Wide, Short>>),
      Para("h3", <<Short>>) }

InitPdf ==
    /\ pdfPc = "para"
    /\ images \in ImageInputs
    /\ nParas \in 1..MaxParas
    /\ i = 0
    /\ kind = "body"
    /\ words = <<>>
    /\ currentLine = <<>>
    /\ yPosition = FreshY
    /\ currentPageIndex = 0
    /\ imagesPlacedOnPage = {}
    /\ lastText = NoDraw
    /\ drawnImages = <<>>
    /\ textOnPage = FALSE
    /\ paraWords = <<>>
    /\ lines = <<>>
    /\ linesDrawn = 0
    /\ headingsSeen = 0
    /\ visited = 0
    /\ wordsVisited = 0
    /\ paraPages = 0
    /\ postPc = "idle"
    /\ PostAtRest
    /\ ClientAtRest
    /\ DownloadsAtRest
    /\ MediaAtRest
    /\ GeneratorsAtRest

\* One iteration of the paragraph loop up to the word loop (lines 293-395),
\* for paragraphs[i] = p.
StartParagraph(p) ==
    /\ pdfPc = "para"
    /\ i < nParas
    /\ visited' = visited + 1
    /\ UNCHANGED <<images, nParas, lastText, linesDrawn, nonPdfVars>>
    /\ IF p.ws = <<>>
       THEN \* "if (!textToRender) continue"
            /\ i' = i + 1
            /\ UNCHANGED <<pdfPc, kind, words, currentLine, paraWords, lines, headingsSeen,
                           wordsVisited, cursorVars>>
       ELSE LET k == p.kind
                c0 == [Here EXCEPT !.added = 0]
                c1 == IF IsAnyHeading(k) /\ i > 0
                      THEN IF HeadingNeedsNewPage(c0.y, TopSpacingOf(k))
                           THEN NewPage(c0)
                           ELSE [c0 EXCEPT !.y = @ - TopSpacingOf(k)]
                      ELSE c0
                c2 == IF NeedsNewPage(c1.y, LineHeightOf(k)) THEN NewPage(c1) ELSE c1
            IN  /\ SetCursor(c2)
                /\ kind' = k
                /\ words' = p.ws
                /\ paraWords' = p.ws
                /\ lines' = <<>>
                /\ currentLine' = <<>>
                /\ wordsVisited' = 0
                /\ headingsSeen' = IF IsAnyHeading(k) THEN headingsSeen + 1 ELSE headingsSeen
                /\ pdfPc' = "word"
                /\ UNCHANGED i

\* Mutant: the word loop does not advance.
RestOfWordsStuck(ws) == ws

\* The words left to visit after this iteration of "for (const word of words)"
RestOfWords(ws) == Tail(ws)

\* Mutant: the word that did not fit is not carried to the next line.
StartLineEmpty(word) == <<>>

\* "currentLine = word" (line 432)
StartLine(word) == <<word>>

\* One iteration of "for (const word of words)" (lines 397-436).
WordStep ==
    /\ pdfPc = "word"
    /\ words # <<>>
    /\ LET word == Head(words)
           testLine == Append(currentLine, word)
           lh == LineHeightOf(kind)
       IN  IF TooWide(testLine, kind)
           THEN /\ IF currentLine # <<>>
                   THEN LET c1 == [Here EXCEPT !.y = @ - lh, !.onPage = TRUE]
                            c2 == IF NeedsNewPage(c1.y, lh) THEN NewPage(c1) ELSE c1
                        IN  /\ lastText' = [y |-> yPosition, lineHeight |-> lh,
                                            page |-> currentPageIndex]
                            /\ lines' = Append(lines, currentLine)
                            /\ linesDrawn' = linesDrawn + 1
                            /\ SetCursor(c2)
                   ELSE UNCHANGED <<lastText, lines, linesDrawn, cursorVars>>
                /\ currentLine' = StartLine(word)
           ELSE /\ currentLine' = testLine
                /\ UNCHANGED <<lastText, lines, linesDrawn, cursorVars>>
    /\ words' = RestOfWords(words)
    /\ wordsVisited' = wordsVisited + 1
    /\ UNCHANGED <<pdfPc, images, nParas, i, kind, paraWords, headingsSeen, visited,
                   nonPdfVars>>

\* After the word loop: draw the last line, add the spacing, next paragraph
\* (lines 438-460).
FinishParagraph ==
    /\ pdfPc = "word"
    /\ words = <<>>
    /\ IF currentLine # <<>>
       THEN /\ lastText' = [y |-> yPosition, lineHeight |-> LineHeightOf(kind),
                            page |-> currentPageIndex]
            /\ lines' = Append(lines, currentLine)
            /\ linesDrawn' = linesDrawn + 1
            /\ yPosition' = yPosition - (LineHeightOf(kind) + BottomSpacingOf(kind))
            /\ textOnPage' = TRUE
       ELSE UNCHANGED <<lastText, lines, linesDrawn, yPosition, textOnPage>>
    /\ i' = i + 1
    /\ pdfPc' = "para"
    /\ UNCHANGED <<images, nParas, kind, words, currentLine, currentPageIndex,
                   imagesPlacedOnPage, drawnImages, paraWords, headingsSeen, visited,
                   wordsVisited, paraPages, nonPdfVars>>

\* The loop ends, pdfDoc.save() (lines 462-471).
FinishPdf ==
    /\ pdfPc = "para"
    /\ i = nParas
    /\ pdfPc' = "done"
    /\ UNCHANGED <<images, nParas, i, kind, words, currentLine, lastText, paraWords,
                   lines, linesDrawn, headingsSeen, visited, wordsVisited, cursorVars,
                   nonPdfVars>>

NextPdf ==
    \/ \E p \in ParaInputs : StartParagraph(p)
    \/ WordStep
    \/ FinishParagraph
    \/ FinishPdf

SpecPdf == InitPdf /\ [][NextPdf]_vars

-----------------------------------------------------------------------------
(* POST /api/whitepaper/generate (route.ts lines 651-1295) *)

\* The layout at rest, while only the handler runs.
PdfAtRest ==
    /\ pdfPc = "idle"
    /\ images = <<>>
    /\ nParas = 0
    /\ i = 0
    /\ kind = "body"
    /\ words = <<>>
    /\ currentLine = <<>>
    /\ yPosition = FreshY
    /\ currentPageIndex = 0
    /\ imagesPlacedOnPage = {}
    /\ lastText = NoDraw
    /\ drawnImages = <<>>
    /\ textOnPage = FALSE
    /\ paraWords = <<>>
    /\ lines = <<>>
    /\ linesDrawn = 0
    /\ headingsSeen = 0
    /\ visited = 0
    /\ wordsVisited = 0
    /\ paraPages = 0

maxContinuationRounds == 10
maxTotalPages == 50

\* Two keys of frameworkQueries; the frameworks lists hold them, an id that
\* is no property of the object, and one that it inherits from Object.prototype.
KnownFrameworks == {"swot", "pestel"}
InheritedKeys == {"constructor"}
FrameworkInputs == { <<>>, <<"swot", "made-up", "pestel">>, <<"constructor">> }

\* "const frameworkQuery = frameworkQueries[frameworkId]; if (frameworkQuery)":
\* the property read also finds what the object literal inherits
HasFrameworkQuery(frameworkId) == frameworkId \in KnownFrameworks \cup InheritedKeys

NumPagesInputs == {1, 3, 60}

\* What imageFrequency.match(/(\d+)\s*image.*?per\s*(\d+)/i) and the two
\* parseInt calls yield: C images per P pages, or no match.
Freq(c, p) == [c |-> c, p |-> p, parsed |-> TRUE]
FreqInputs == { NoFreq, Freq(0, 2), Freq(1, 1), Freq(1, 2), Freq(2, 1), Freq(2, 3),
                Freq(1, 25), Freq(2, 25) }

imagesPerCount(r) == IF r.freq.parsed THEN r.freq.c ELSE 0
pagesPerImage(r) == IF r.freq.parsed THEN r.freq.p ELSE 0

Min(a, b) == IF a < b THEN a ELSE b

\* "Math.min(numPages, 50)"
totalPages(r) == Min(r.numPages, maxTotalPages)

\* "Math.floor(totalPages / pagesPerImage)"
numberOfImageGroups(r) == totalPages(r) \div pagesPerImage(r)

\* "numberOfImageGroups * imagesPerCount"
totalImages(r) == numberOfImageGroups(r) * imagesPerCount(r)

\* "if (imagesPerCount > 0 && pagesPerImage > 0)"
WantsImages(r) == imagesPerCount(r) > 0 /\ pagesPerImage(r) > 0

\* Mutant: the base index is not moved back to 0-based.
PageIndexOfOneBased(r, g, n) == ((g + 1) * pagesPerImage(r)) + n

\* "(groupIndex + 1) * pagesPerImage - 1" and "basePageIndex + imgInGroup"
PageIndexOf(r, g, n) == ((g + 1) * pagesPerImage(r) - 1) + n

\* The requests the model sends: a body that is not JSON, the JSON value
\* null, a JSON number, and objects with and without a prompt. Requests that
\* select frameworks come without an image frequency.
ObjectRequests ==
    { [body |-> "object", prompt |-> "text", outputFormat |-> f, numPages |-> n,
       freq |-> q, frameworks |-> fw] :
        f \in {"absent", "pdf", "docx", "ppt", "html"}, n \in NumPagesInputs,
        q \in FreqInputs, fw \in FrameworkInputs }

Requests ==
    { [NoRequest EXCEPT !.body = b] : b \in {"unparseable", "null", "number"} }
    \cup { [NoRequest EXCEPT !.body = "object", !.prompt = pr, !.numPages = 3] :
             pr \in {"absent", "empty"} }
    \cup { r \in ObjectRequests :
             /\ WantsImages(r) => totalImages(r) <= MaxImageCalls
             /\ r.frameworks # <<>> => (r.freq = NoFreq /\ r.numPages = 3) }

\* "outputFormat = 'pdf'" is the default of the destructuring
FormatOf(r) == IF r.outputFormat = "absent" THEN "pdf" ELSE r.outputFormat

\* A text as the handler sees it: real words, words made of markup characters
\* only ("**", "_"), and whether it holds white space.
Text(real, mark, ws) == [real |-> real, mark |-> mark, ws |-> ws, none |-> FALSE]

\* What chatCompletion can do: throw, or return "", " ", "**" or a text.
ChatResults == {"throw", "empty", "blank", "markup", "text"}

ContentOf(res) ==
    IF res = "empty" THEN Text(0, 0, FALSE)
    ELSE IF res = "blank" THEN Text(0, 0, TRUE)
    ELSE IF res = "markup" THEN Text(0, 1, FALSE)
    ELSE Text(TextWords, 0, TRUE)

\* JavaScript truthiness of a string: it is not empty
Truthy(c) == ~c.none /\ (c.real + c.mark > 0 \/ c.ws)

\* "x.trim().length > 0"
TrimmedNonEmpty(c) == ~c.none /\ c.real + c.mark > 0

\* "whitepaperContent.trim().split(/\s+/).length": "".split(/\s+/) is [""]
WordCount(c) == IF c.real + c.mark = 0 THEN 1 ELSE c.real + c.mark

\* "whitepaperContent += '\n\n' + continuation"
Join(c, d) == Text(c.real + d.real, c.mark + d.mark, TRUE)

\* "Math.round(numPages * 500 * 0.8)"
minWordsRequired(r) == r.numPages * 400

\* Mutant: the loop forgets its round limit.
LoopContinuesUnbounded(cw, minWords, round) == cw < minWords

\* "while (currentWords < minWordsRequired && continuationRound < maxContinuationRounds)"
LoopContinues(cw, minWords, round) == cw < minWords /\ round < maxContinuationRounds

\* Mutant: the check tests for the empty string only.
ContentRejectedIfEmpty(c) == ~Truthy(c)

\* "if (!whitepaperContent || whitepaperContent.trim().length === 0)"
ContentRejected(c) == ~Truthy(c) \/ ~TrimmedNonEmpty(c)

\* Post-processing (lines 1056-1085): markup characters are removed.
PostProcess(c) == Text(c.real, 0, c.ws)

\* generateWhitepaperPDF's guard: "if (!content || content.trim().length === 0) throw"
PdfRejects(c) == ~Truthy(c) \/ ~TrimmedNonEmpty(c)

Resp(status, error, mime, ext, doc, at) ==
    [status |-> status, error |-> error, mimeType |-> mime, fileExtension |-> ext,
     document |-> doc, at |-> at]

Fail(status, error, at) == Resp(status, error, "", "", "", at)

OuterCatch(at) == Fail(500, "Failed to generate whitepaper", at)

\* Mutant: docx and ppt answers carry each other's MIME type.
MimeTypeOfSwapped(fmt) ==
    IF fmt = "pdf" THEN "application/pdf"
    ELSE IF fmt = "ppt"
         THEN "application/vnd.openxmlformats-officedocument.wordprocessingml.document"
    ELSE IF fmt = "docx"
         THEN "application/vnd.openxmlformats-officedocument.presentationml.presentation"
    ELSE "text/plain"

\* mimeType by outputFormat (lines 1222-1243)
MimeTypeOf(fmt) ==
    IF fmt = "pdf" THEN "application/pdf"
    ELSE IF fmt = "docx"
         THEN "application/vnd.openxmlformats-officedocument.wordprocessingml.document"
    ELSE IF fmt = "ppt"
         THEN "application/vnd.openxmlformats-officedocument.presentationml.presentation"
    ELSE "text/plain"

\* fileExtension by outputFormat
FileExtensionOf(fmt) ==
    IF fmt = "pdf" THEN "pdf"
    ELSE IF fmt = "docx" THEN "docx"
    ELSE IF fmt = "ppt" THEN "pptx"
    ELSE "txt"

\* The generator called for an outputFormat, "none" for the text fallback
GeneratorOf(fmt) == IF fmt \in {"pdf", "docx", "ppt"} THEN fmt ELSE "none"

InitPost ==
    /\ postPc = "start"
    /\ req \in Requests
    /\ whitepaperContent = NoContent
    /\ generated = NoContent
    /\ chatFailed = FALSE
    /\ currentWords = 0
    /\ continuationRound = 0
    /\ fwIdx = 1
    /\ groupIndex = 0
    /\ imgInGroup = 0
    /\ imageRequests = <<>>
    /\ imagesLen = 0
    /\ announced = 0 - 1
    /\ embedCalls = 0
    /\ pineconeCalls = 0
    /\ chatCalls = 0
    /\ continuationCalls = 0
    /\ generatorCalled = "none"
    /\ response = NoResponse
    /\ pineconeFailed = FALSE
    /\ fwEmbedded = {}
    /\ fwQueried = {}
    /\ PdfAtRest
    /\ ClientAtRest
    /\ DownloadsAtRest
    /\ MediaAtRest
    /\ GeneratorsAtRest

Respond(r) ==
    /\ response' = r
    /\ postPc' = "responded"

\* request.json(), the destructuring and the prompt check (lines 655-673).
\* Destructuring null throws a TypeError, which the outer catch answers.
ParseBody ==
    /\ postPc = "start"
    /\ IF req.body = "unparseable"
       THEN Respond(Fail(400, "Invalid JSON in request body", "parse"))
       ELSE IF req.body = "null"
       THEN Respond(OuterCatch("parse"))
       ELSE IF req.prompt # "text"
       THEN Respond(Fail(400, "Prompt is required", "parse"))
       ELSE /\ postPc' = "embed"
            /\ UNCHANGED response
    /\ UNCHANGED <<req, whitepaperContent, currentWords, continuationRound, fwIdx,
                   groupIndex, imgInGroup, imageRequests, imagesLen, announced,
                   embedCalls, pineconeCalls, chatCalls, continuationCalls,
                   generatorCalled, generated, chatFailed, groundingHist, nonPostVars>>

\* "const queryEmbedding = await getEmbedding(prompt)" (line 676), outside any
\* inner try, and the main queryPinecone inside its own try (lines 680-685).
QueryMain(embedOk, queryOk) ==
    /\ postPc = "embed"
    /\ embedCalls' = embedCalls + 1
    /\ IF embedOk
       THEN /\ pineconeCalls' = pineconeCalls + 1
            /\ pineconeFailed' = (pineconeFailed \/ ~queryOk)
            /\ postPc' = "frameworks"
            /\ UNCHANGED response
       ELSE /\ Respond(OuterCatch("embed"))
            /\ UNCHANGED <<pineconeCalls, pineconeFailed>>
    /\ UNCHANGED <<req, whitepaperContent, currentWords, continuationRound, fwIdx,
                   groupIndex, imgInGroup, imageRequests, imagesLen, announced,
                   chatCalls, continuationCalls, generatorCalled, generated,
                   chatFailed, fwEmbedded, fwQueried, nonPostVars>>

\* One iteration of "for (const frameworkId of frameworks)" (lines 689-714),
\* or the end of the loop.
FrameworkStep(embedOk, queryOk) ==
    /\ postPc = "frameworks"
    /\ IF fwIdx <= Len(req.frameworks)
       THEN /\ fwIdx' = fwIdx + 1
            /\ IF HasFrameworkQuery(req.frameworks[fwIdx])
               THEN /\ embedCalls' = embedCalls + 1
                    /\ fwEmbedded' = fwEmbedded \cup {req.frameworks[fwIdx]}
                    /\ IF embedOk
                       THEN /\ pineconeCalls' = pineconeCalls + 1
                            /\ fwQueried' = fwQueried \cup {req.frameworks[fwIdx]}
                            /\ pineconeFailed' = (pineconeFailed \/ ~queryOk)
                       ELSE UNCHANGED <<pineconeCalls, fwQueried, pineconeFailed>>
               ELSE UNCHANGED <<embedCalls, pineconeCalls, groundingHist>>
            /\ UNCHANGED postPc
       ELSE /\ postPc' = "chat"
            /\ UNCHANGED <<fwIdx, embedCalls, pineconeCalls, groundingHist>>
    /\ UNCHANGED <<req, whitepaperContent, currentWords, continuationRound,
                   groupIndex, imgInGroup, imageRequests, imagesLen, announced,
                   chatCalls, continuationCalls, generatorCalled, generated,
                   chatFailed, response, nonPostVars>>

\* The initial chatCompletion call and the entry of the continuation loop
\* (lines 925-953, 1008-1018).
ChatInitial(res) ==
    /\ postPc = "chat"
    /\ chatCalls' = chatCalls + 1
    /\ IF res = "throw"
       THEN /\ Respond(Fail(500, "Failed to generate whitepaper content", "chat"))
            /\ chatFailed' = TRUE
            /\ UNCHANGED <<whitepaperContent, currentWords, continuationRound>>
       ELSE /\ whitepaperContent' = ContentOf(res)
            /\ UNCHANGED <<chatFailed, response>>
            /\ IF Truthy(ContentOf(res))
               THEN /\ currentWords' = WordCount(ContentOf(res))
                    /\ continuationRound' = 0
                    /\ postPc' = "continue"
               ELSE /\ postPc' = "validate"
                    /\ UNCHANGED <<currentWords, continuationRound>>
    /\ UNCHANGED <<req, fwIdx, groupIndex, imgInGroup, imageRequests, imagesLen,
                   announced, embedCalls, pineconeCalls, continuationCalls,
                   generatorCalled, generated, groundingHist, nonPostVars>>

\* The loop test and one round of the continuation loop (lines 956-1002).
ContinueStep(res) ==
    /\ postPc = "continue"
    /\ IF LoopContinues(currentWords, minWordsRequired(req), continuationRound)
       THEN /\ chatCalls' = chatCalls + 1
            /\ continuationCalls' = continuationCalls + 1
            /\ IF res # "throw" /\ TrimmedNonEmpty(ContentOf(res))
               THEN LET joined == Join(whitepaperContent, ContentOf(res)) IN
                    /\ whitepaperContent' = joined
                    /\ currentWords' = WordCount(joined)
                    /\ IF WordCount(joined) >= minWordsRequired(req)
                       THEN /\ postPc' = "validate"         \* break
                            /\ UNCHANGED continuationRound
                       ELSE /\ continuationRound' = continuationRound + 1
                            /\ UNCHANGED postPc
               ELSE \* empty continuation, or an error: break
                    /\ postPc' = "validate"
                    /\ UNCHANGED <<whitepaperContent, currentWords, continuationRound>>
       ELSE /\ postPc' = "validate"
            /\ UNCHANGED <<chatCalls, continuationCalls, whitepaperContent,
                           currentWords, continuationRound>>
    /\ UNCHANGED <<req, fwIdx, groupIndex, imgInGroup, imageRequests, imagesLen,
                   announced, embedCalls, pineconeCalls, generatorCalled, generated,
                   chatFailed, response, groundingHist, nonPostVars>>

\* The emptiness check, post-processing and the parse of imageFrequency
\* (lines 1020-1146). currentWords and continuationRound go out of scope.
Validate ==
    /\ postPc = "validate"
    /\ generated' = whitepaperContent
    /\ currentWords' = 0
    /\ continuationRound' = 0
    /\ IF ContentRejected(whitepaperContent)
       THEN /\ Respond(Fail(500,
                   "Failed to generate whitepaper content. The AI response was empty.",
                   "validate"))
            /\ UNCHANGED <<whitepaperContent, announced>>
       ELSE /\ whitepaperContent' = PostProcess(whitepaperContent)
            /\ UNCHANGED response
            /\ IF WantsImages(req)
               THEN /\ announced' = totalImages(req)
                    /\ postPc' = "images"
               ELSE /\ postPc' = "document"
                    /\ UNCHANGED announced
    /\ UNCHANGED <<req, fwIdx, groupIndex, imgInGroup, imageRequests, imagesLen,
                   embedCalls, pineconeCalls, chatCalls, continuationCalls,
                   generatorCalled, chatFailed, groundingHist, nonPostVars>>

\* One step of the two image loops (lines 1153-1202): an inner iteration, the
\* end of a group, or the end of the outer loop. imageOk: generateImage
\* returned usable data.
ImageStep(imageOk) ==
    /\ postPc = "images"
    /\ IF groupIndex < numberOfImageGroups(req)
       THEN IF imgInGroup < imagesPerCount(req)
            THEN LET pageIndex == PageIndexOf(req, groupIndex, imgInGroup) IN
                 /\ imgInGroup' = imgInGroup + 1
                 /\ IF pageIndex < totalPages(req)
                    THEN /\ imageRequests' = Append(imageRequests, pageIndex)
                         /\ imagesLen' = IF imageOk THEN imagesLen + 1 ELSE imagesLen
                    ELSE UNCHANGED <<imageRequests, imagesLen>>
                 /\ UNCHANGED <<groupIndex, postPc>>
            ELSE /\ groupIndex' = groupIndex + 1
                 /\ imgInGroup' = 0
                 /\ UNCHANGED <<imageRequests, imagesLen, postPc>>
       ELSE /\ postPc' = "document"
            /\ UNCHANGED <<groupIndex, imgInGroup, imageRequests, imagesLen>>
    /\ UNCHANGED <<req, whitepaperContent, currentWords, continuationRound, fwIdx,
                   announced, embedCalls, pineconeCalls, chatCalls, continuationCalls,
                   generatorCalled, generated, chatFailed, response, groundingHist, nonPostVars>>

\* "Generate document in requested format" and the response (lines 1216-1258);
\* an exception of the generator reaches the outer catch (lines 1260-1294).
GenerateDocument ==
    /\ postPc = "document"
    /\ LET fmt == FormatOf(req) IN
       /\ generatorCalled' = GeneratorOf(fmt)
       /\ IF GeneratorOf(fmt) = "pdf" /\ PdfRejects(whitepaperContent)
          THEN Respond(OuterCatch("document"))
          ELSE Respond(Resp(200, "", MimeTypeOf(fmt), FileExtensionOf(fmt),
                            IF GeneratorOf(fmt) = "none" THEN "content"
                            ELSE GeneratorOf(fmt),
                            "document"))
    /\ UNCHANGED <<req, whitepaperContent, currentWords, continuationRound, fwIdx,
                   groupIndex, imgInGroup, imageRequests, imagesLen, announced,
                   embedCalls, pineconeCalls, chatCalls, continuationCalls, generated,
                   chatFailed, groundingHist, nonPostVars>>

NextPost ==
    \/ ParseBody
    \/ \E embedOk, queryOk \in BOOLEAN : QueryMain(embedOk, queryOk)
    \/ \E embedOk, queryOk \in BOOLEAN : FrameworkStep(embedOk, queryOk)
    \/ \E res \in ChatResults : ChatInitial(res)
    \/ \E res \in ChatResults : ContinueStep(res)
    \/ Validate
    \/ \E imageOk \in BOOLEAN : ImageStep(imageOk)
    \/ GenerateDocument

SpecPost == InitPost /\ [][NextPost]_vars

-----------------------------------------------------------------------------
(* WhitepaperGenerator: the page-count field (part_001 lines 41, 113-125, 324) *)

Max(a, b) == IF a > b THEN a ELSE b

\* Sequences over S of length lo..hi
SeqsOf(S, lo, hi) == UNION { [1..n -> S] : n \in lo..hi }

\* The characters the model types into the field.
InputChars == {"-", "0", "1", "5", "9", "a", ".", " "}

Digits == {"0", "1", "5", "9"}

DigitValue(ch) == IF ch = "0" THEN 0 ELSE IF ch = "1" THEN 1 ELSE IF ch = "5" THEN 5 ELSE 9

NaN == [nan |-> TRUE, val |-> 0]
Num(v) == [nan |-> FALSE, val |-> v]

\* The value of the leading run of digits of s, and how many there are
RECURSIVE ReadDigits(_, _, _)
ReadDigits(s, acc, count) ==
    IF s # <<>> /\ Head(s) \in Digits
    THEN ReadDigits(Tail(s), acc * 10 + DigitValue(Head(s)), count + 1)
    ELSE [val |-> acc, count |-> count]

RECURSIVE SkipSpaces(_)
SkipSpaces(s) == IF s # <<>> /\ Head(s) = " " THEN SkipSpaces(Tail(s)) ELSE s

\* parseInt(s): leading white space is skipped, then an optional sign, then
\* decimal digits up to the first other character; NaN without a digit.
parseInt(s) ==
    LET t == SkipSpaces(s)
        negative == t # <<>> /\ Head(t) = "-"
        body == IF negative THEN Tail(t) ELSE t
        d == ReadDigits(body, 0, 0)
    IN  IF d.count = 0 THEN NaN
        ELSE Num(IF negative THEN 0 - d.val ELSE d.val)

\* "x || 1": NaN and 0 are falsy
OrOne(x) == IF x.nan \/ x.val = 0 THEN 1 ELSE x.val

\* Mutant: the lower clamp is missing.
ClampPagesNoFloor(n) == Min(50, n)

\* "Math.min(50, Math.max(1, n))"
ClampPages(n) == Min(50, Max(1, n))

InitClient ==
    /\ ClientAtRest
    /\ PdfAtRest
    /\ postPc = "idle"
    /\ PostAtRest
    /\ DownloadsAtRest
    /\ MediaAtRest
    /\ GeneratorsAtRest

\* onChange of the page-count input (line 324), e.target.value = value
EditNumPages(value) ==
    /\ numPages' = ClampPages(OrOne(parseInt(value)))
    /\ UNCHANGED <<prompt, sentNumPages, nonClientVars>>

\* onChange of the prompt textarea
EditPrompt(value) ==
    /\ prompt' = value
    /\ UNCHANGED <<numPages, sentNumPages, nonClientVars>>

\* handleGenerate up to the fetch (lines 71-125): nothing is sent for a
\* blank prompt; the body carries Math.min(numPages, 50).
HandleGenerate ==
    /\ IF prompt \in {"", " "}
       THEN UNCHANGED sentNumPages
       ELSE sentNumPages' = Min(numPages, 50)
    /\ UNCHANGED <<numPages, prompt, nonClientVars>>

NextClient ==
    \/ \E value \in SeqsOf(InputChars, 0, MaxInputLen) : EditNumPages(value)
    \/ \E value \in {"", " ", "topic"} : EditPrompt(value)
    \/ HandleGenerate

SpecClient == InitClient /\ [][NextClient]_vars

-----------------------------------------------------------------------------
(* DownloadsMenu: saveFileToDownloads, getDownloadedFiles and                *)
(* deleteDownloadedFile (part_002 lines 17-45)                               *)

maxStoredFiles == 50

\* getDownloadedFiles(): JSON.parse of what setItem stored, [] when nothing is
getDownloadedFiles == stored

\* Mutant: the slice keeps the last 50 entries instead of the first 50.
KeepRecentFromEnd(files) ==
    SubSeq(files, Max(1, Len(files) - maxStoredFiles + 1), Len(files))

\* "files.slice(0, 50)"
KeepRecent(files) == SubSeq(files, 1, Min(Len(files), maxStoredFiles))

\* "files.filter(f => f.id !== fileId)"
RECURSIVE WithoutId(_, _)
WithoutId(files, fileId) ==
    IF files = <<>> THEN <<>>
    ELSE IF Head(files).id = fileId THEN WithoutId(Tail(files), fileId)
    ELSE <<Head(files)>> \o WithoutId(Tail(files), fileId)

InitDownloads ==
    /\ DownloadsAtRest
    /\ PdfAtRest
    /\ postPc = "idle"
    /\ PostAtRest
    /\ ClientAtRest
    /\ MediaAtRest
    /\ GeneratorsAtRest

\* saveFileToDownloads(file): the id is Date.now(), which the model advances
\* by one between saves; the other fields of the file are carried unchanged.
SaveFileToDownloads ==
    /\ saves < MaxSaves
    /\ LET newFile == [id |-> saves + 1]
           files == <<newFile>> \o getDownloadedFiles        \* files.unshift(newFile)
       IN  stored' = KeepRecent(files)
    /\ saves' = saves + 1
    /\ UNCHANGED <<deletes, nonDlVars>>

\* deleteDownloadedFile(fileId)
DeleteDownloadedFile(fileId) ==
    /\ deletes < MaxDeletes
    /\ stored' = WithoutId(getDownloadedFiles, fileId)
    /\ deletes' = deletes + 1
    /\ UNCHANGED <<saves, nonDlVars>>

\* handleDelete: the delete button of a listed file (lines 102-108)
HandleDelete == \E n \in DOMAIN stored : DeleteDownloadedFile(stored[n].id)

NextDownloads ==
    \/ SaveFileToDownloads
    \/ HandleDelete

SpecDownloads == InitDownloads /\ [][NextDownloads]_vars

-----------------------------------------------------------------------------
(* POST of the media-generation route (part_000)                             *)

\* The requests the model sends: a body that is not JSON, the JSON value
\* null, and objects with or without a prompt and a type, under each
\* combination of GOOGLE_AI_API_KEY and OPENAI_API_KEY.
MediaRequests ==
    { [NoMediaRequest EXCEPT !.body = b, !.googleApiKey = g, !.openaiApiKey = o] :
        b \in {"unparseable", "null"}, g \in BOOLEAN, o \in BOOLEAN }
    \cup { [body |-> "object", prompt |-> pr, type |-> t, googleApiKey |-> g,
            openaiApiKey |-> o] :
             pr \in {"absent", "text"}, t \in {"absent", "image", "video", "audio"},
             g \in BOOLEAN, o \in BOOLEAN }

\* "type = 'image'" is the default of the destructuring
MediaTypeOf(r) == IF r.type = "absent" THEN "image" ELSE r.type

\* What the Gemini image call can do: fetch or the reading of the answer
\* throws; a non-OK status; an OK answer with an inline_data part, with a
\* text part that is a data URL, with an images array, or with no image.
GeminiImageResults == {"throw", "notOk", "inlineData", "textDataUrl", "imagesArray", "noImage"}

\* Mutant: only inline_data parts are recognised as an image.
GeminiReturnsImageInlineOnly(out) == out = "inlineData"

\* The three returns of lines 50-84
GeminiReturnsImage(out) == out \in {"inlineData", "textDataUrl", "imagesArray"}

\* What the Gemini video call can do
GeminiVideoResults == {"throw", "notOk", "ok"}

\* What openai.images.generate can do: throw, or answer with or without a url
OpenAIResults == {"throw", "url", "noUrl"}

MediaCall(service, out) == [service |-> service, outcome |-> out]

MediaResp(status, model, type, error) ==
    [status |-> status, model |-> model, type |-> type, error |-> error]

\* The outer catch (lines 174-183)
MediaOuterCatch == MediaResp(500, "", "", "Failed to generate media")

MediaRespond(r) ==
    /\ mediaResponse' = r
    /\ mediaPc' = "responded"

InitMedia ==
    /\ mediaPc = "start"
    /\ mediaReq \in MediaRequests
    /\ mediaCalls = <<>>
    /\ mediaResponse = NoMediaResponse
    /\ PdfAtRest
    /\ postPc = "idle"
    /\ PostAtRest
    /\ ClientAtRest
    /\ DownloadsAtRest
    /\ GeneratorsAtRest

\* request.json(), the destructuring and the prompt check (lines 5-15); a
\* body that cannot be parsed and the value null both throw inside the try.
MediaParse ==
    /\ mediaPc = "start"
    /\ IF mediaReq.body \in {"unparseable", "null"}
       THEN MediaRespond(MediaOuterCatch)
       ELSE IF mediaReq.prompt # "text"
       THEN MediaRespond(MediaResp(400, "", "", "Prompt is required"))
       ELSE /\ mediaPc' = "gemini"
            /\ UNCHANGED mediaResponse
    /\ UNCHANGED <<mediaReq, mediaCalls, nonMediaVars>>

\* "if (googleApiKey && type === 'image')" (lines 18-93)
GeminiImage(out) ==
    /\ mediaPc = "gemini"
    /\ IF mediaReq.googleApiKey /\ MediaTypeOf(mediaReq) = "image"
       THEN /\ mediaCalls' = Append(mediaCalls, MediaCall("google", out))
            /\ IF out \notin {"throw", "notOk"} /\ GeminiReturnsImage(out)
               THEN MediaRespond(MediaResp(200, "google", "image", ""))
               ELSE /\ mediaPc' = "video"
                    /\ UNCHANGED mediaResponse
       ELSE /\ mediaPc' = "video"
            /\ UNCHANGED <<mediaCalls, mediaResponse>>
    /\ UNCHANGED <<mediaReq, nonMediaVars>>

\* "if (googleApiKey && type === 'video')" (lines 95-134)
GeminiVideo(out) ==
    /\ mediaPc = "video"
    /\ IF mediaReq.googleApiKey /\ MediaTypeOf(mediaReq) = "video"
       THEN /\ mediaCalls' = Append(mediaCalls, MediaCall("google-video", out))
            /\ IF out = "ok"
               THEN MediaRespond(MediaResp(200, "google", "video", ""))
               ELSE /\ mediaPc' = "openai"
                    /\ UNCHANGED mediaResponse
       ELSE /\ mediaPc' = "openai"
            /\ UNCHANGED <<mediaCalls, mediaResponse>>
    /\ UNCHANGED <<mediaReq, nonMediaVars>>

\* "if (openaiApiKey && type === 'image')" (lines 137-159); an exception of
\* the client reaches the outer catch.
OpenAIImage(out) ==
    /\ mediaPc = "openai"
    /\ IF mediaReq.openaiApiKey /\ MediaTypeOf(mediaReq) = "image"
       THEN /\ mediaCalls' = Append(mediaCalls, MediaCall("openai", out))
            /\ IF out = "throw" THEN MediaRespond(MediaOuterCatch)
               ELSE IF out = "url"
               THEN MediaRespond(MediaResp(200, "openai", "image", ""))
               ELSE /\ mediaPc' = "finish"
                    /\ UNCHANGED mediaResponse
       ELSE /\ mediaPc' = "finish"
            /\ UNCHANGED <<mediaCalls, mediaResponse>>
    /\ UNCHANGED <<mediaReq, nonMediaVars>>

\* The two last returns (lines 162-172)
MediaFinish ==
    /\ mediaPc = "finish"
    /\ IF MediaTypeOf(mediaReq) = "video"
       THEN MediaRespond(MediaResp(400, "", "",
                "Video generation is currently only available via Google Gemini."))
       ELSE MediaRespond(MediaResp(500, "", "", "No API keys available."))
    /\ UNCHANGED <<mediaReq, mediaCalls, nonMediaVars>>

NextMedia ==
    \/ MediaParse
    \/ \E out \in GeminiImageResults : GeminiImage(out)
    \/ \E out \in GeminiVideoResults : GeminiVideo(out)
    \/ \E out \in OpenAIResults : OpenAIImage(out)
    \/ MediaFinish

SpecMedia == InitMedia /\ [][NextMedia]_vars

-----------------------------------------------------------------------------
(* generateWhitepaperDOCX (route.ts lines 474-558) and                       *)
(* generateWhitepaperPPT (lines 560-649): where the images go                *)

paragraphsPerPage == 50

Placement(target, at) == [target |-> target, at |-> at]

\* The paragraph lists of the DOCX runs: one, two and three estimated pages.
DocxParaInputs == { [n \in 1..len |-> FALSE] : len \in {1, 51, MaxDocxParas} }

\* The paragraph lists of the PPT runs: any mix of headings and body text.
PptParaInputs == UNION { [1..len -> BOOLEAN] : len \in 0..MaxPptParas }

\* Mutant: the test does not look at imagesPlaced.
DocxPlacesAlways(img, page, placed) == img.pageIndex = page

\* "if (img.pageIndex === currentEstimatedPage && !imagesPlaced.has(img.pageIndex))"
DocxPlaces(img, page, placed) == img.pageIndex = page /\ img.pageIndex \notin placed

\* "images.forEach(img => ...)" from image n on, for the estimated page:
\* the placeholders pushed and the pages recorded in imagesPlaced
RECURSIVE DocxForEach(_, _, _, _, _)
DocxForEach(imgs, n, page, placed, pushed) ==
    IF n > Len(imgs) THEN [placed |-> placed, pushed |-> pushed]
    ELSE IF DocxPlaces(imgs[n], page, placed)
         THEN DocxForEach(imgs, n + 1, page, placed \cup {imgs[n].pageIndex},
                          Append(pushed, Placement(imgs[n].pageIndex, page)))
         ELSE DocxForEach(imgs, n + 1, page, placed, pushed)

InitDocx ==
    /\ genPc = "docx"
    /\ docImages \in ImageInputs
    /\ docParas \in DocxParaInputs
    /\ numSlides = 0
    /\ docI = 0
    /\ imagesPlaced = {}
    /\ currentSlideIndex = 0
    /\ slideNo = 0
    /\ placements = <<>>
    /\ PdfAtRest
    /\ postPc = "idle"
    /\ PostAtRest
    /\ ClientAtRest
    /\ DownloadsAtRest
    /\ MediaAtRest

\* One iteration of the paragraph loop of generateWhitepaperDOCX (lines 488-551)
DocxStep ==
    /\ genPc = "docx"
    /\ docI < Len(docParas)
    /\ LET currentEstimatedPage == docI \div paragraphsPerPage
           r == DocxForEach(docImages, 1, currentEstimatedPage, imagesPlaced, placements)
       IN  /\ imagesPlaced' = r.placed
           /\ placements' = r.pushed
    /\ docI' = docI + 1
    /\ UNCHANGED <<genPc, docImages, docParas, numSlides, currentSlideIndex, slideNo,
                   nonGenVars>>

\* The loop ends, Packer.toBuffer (lines 553-557)
DocxFinish ==
    /\ genPc = "docx"
    /\ docI = Len(docParas)
    /\ genPc' = "done"
    /\ UNCHANGED <<docImages, docParas, numSlides, docI, imagesPlaced, currentSlideIndex,
                   slideNo, placements, nonGenVars>>

NextDocx ==
    \/ DocxStep
    \/ DocxFinish

\* "images.find(img => img.pageIndex + 1 === currentSlideIndex &&
\*  !imagesPlaced.has(img.pageIndex))": index of the first match, 0 if none
RECURSIVE PptFindFrom(_, _, _, _)
PptFindFrom(imgs, slideIndex, placed, n) ==
    IF n > Len(imgs) THEN 0
    ELSE IF imgs[n].pageIndex + 1 = slideIndex /\ imgs[n].pageIndex \notin placed THEN n
    ELSE PptFindFrom(imgs, slideIndex, placed, n + 1)

\* The title slide is added and counted before the loop (lines 571-589).
InitPpt ==
    /\ genPc = "ppt"
    /\ docImages \in ImageInputs
    /\ docParas \in PptParaInputs
    /\ numSlides \in 1..MaxSlides
    /\ docI = 0
    /\ imagesPlaced = {}
    /\ currentSlideIndex = 1
    /\ slideNo = 0
    /\ placements = <<>>
    /\ PdfAtRest
    /\ postPc = "idle"
    /\ PostAtRest
    /\ ClientAtRest
    /\ DownloadsAtRest
    /\ MediaAtRest

\* One iteration of the paragraph loop of generateWhitepaperPPT (lines
\* 591-644). addOk: slide.addImage did not throw.
PptStep(addOk) ==
    /\ genPc = "ppt"
    /\ docI < Len(docParas) /\ currentSlideIndex < numSlides
    /\ LET newSlide == docParas[docI + 1] /\ currentSlideIndex > 0
           slideIndex == IF newSlide THEN currentSlideIndex + 1 ELSE currentSlideIndex
           slide == IF newSlide THEN slideNo + 1 ELSE slideNo
           n == PptFindFrom(docImages, slideIndex, imagesPlaced, 1)
       IN  /\ currentSlideIndex' = slideIndex
           /\ slideNo' = slide
           /\ IF n # 0 /\ addOk
              THEN /\ placements' = Append(placements,
                                           Placement(docImages[n].pageIndex, slide))
                   /\ imagesPlaced' = imagesPlaced \cup {docImages[n].pageIndex}
              ELSE UNCHANGED <<placements, imagesPlaced>>
    /\ docI' = docI + 1
    /\ UNCHANGED <<genPc, docImages, docParas, numSlides, nonGenVars>>

\* The loop ends, pptx.write (lines 646-648)
PptFinish ==
    /\ genPc = "ppt"
    /\ ~(docI < Len(docParas) /\ currentSlideIndex < numSlides)
    /\ genPc' = "done"
    /\ UNCHANGED <<docImages, docParas, numSlides, docI, imagesPlaced, currentSlideIndex,
                   slideNo, placements, nonGenVars>>

NextPpt ==
    \/ \E addOk \in BOOLEAN : PptStep(addOk)
    \/ PptFinish

\* The three generators, each run on its own.
InitGenerators ==
    \/ InitPdf
    \/ InitDocx
    \/ InitPpt

NextGenerators ==
    \/ NextPdf
    \/ NextDocx
    \/ NextPpt

SpecGenerators == InitGenerators /\ [][NextGenerators]_vars

-----------------------------------------------------------------------------
(* Properties of generateWhitepaperPDF *)

\* C1: every drawText call has its cursor inside the page body:
\* bottomMargin + lineHeight <= yPosition <= height - topMargin.
C1_TextInsideBody ==
    lastText # NoDraw =>
        /\ bottomMargin + lastText.lineHeight <= lastText.y
        /\ lastText.y <= pageHeight - topMargin

\* C1 witness: a line drawn with the cursor exactly at the lower limit,
\* bottomMargin + lineHeight, on a page that was added by a page break.
C1_Witness ==
    /\ lastText # NoDraw
    /\ lastText.page >= 1
    /\ lastText.y = bottomMargin + lastText.lineHeight

\* C2: every image is drawn on the page whose index is its pageIndex, before
\* any text of that page; placeImageIfNeeded is entered with a fresh cursor
\* and its "need a new page for the image" branch never fires.
C2_ImageOnItsPage ==
    \A n \in DOMAIN drawnImages :
        /\ drawnImages[n].page = drawnImages[n].target
        /\ ~drawnImages[n].afterText
        /\ drawnImages[n].entryY = pageHeight - topMargin
        /\ ~drawnImages[n].shifted

\* C2 witness: images drawn on pages 1 and 2, text following on page 2.
C2_Witness ==
    /\ \E n \in DOMAIN drawnImages : drawnImages[n].target = 1
    /\ \E n \in DOMAIN drawnImages : drawnImages[n].target = 2
    /\ currentPageIndex = 2
    /\ textOnPage

AllEmbeddable == \A n \in DOMAIN images : images[n].ok

\* C3: when generateWhitepaperPDF finishes and every image could be embedded,
\* every pageIndex of a supplied image that is smaller than the number of
\* pages (pageIndex 0 included) has had an image drawn.
C3_EveryInRangeImageDrawn ==
    (pdfPc = "done" /\ AllEmbeddable) =>
        \A n \in DOMAIN images :
            images[n].pageIndex < currentPageIndex + 1 =>
                images[n].pageIndex \in imagesPlacedOnPage

\* What the code does achieve: the same for every pageIndex from 1 on.
C3_EveryLaterImageDrawn ==
    (pdfPc = "done" /\ AllEmbeddable) =>
        \A n \in DOMAIN images :
            (1 <= images[n].pageIndex /\ images[n].pageIndex < currentPageIndex + 1) =>
                images[n].pageIndex \in imagesPlacedOnPage

\* A variant of the two loops: it is a natural number and every step lowers it.
Rank ==
    IF pdfPc = "done" THEN 0
    ELSE (nParas - i) * (LongLen + 3)
         + (IF pdfPc = "word" THEN Len(words) + 1 ELSE LongLen + 2)

HeadingAllowance == IF IsAnyHeading(kind) THEN 1 ELSE 0

\* C4: the layout is bounded and single-pass. It cannot get stuck before the
\* end and every step lowers Rank, so it terminates; the paragraph index only
\* moves forward by one, each paragraph is visited once and each of its words
\* once; and the pages added are at most one per drawn line plus one per
\* heading, in total and within each paragraph.
C4_BoundedSinglePass ==
    /\ [](pdfPc # "done" => ENABLED NextPdf)
    /\ [](Rank >= 0)
    /\ [][Rank' < Rank]_vars
    /\ [][i' = i \/ i' = i + 1]_vars
    /\ [][visited' = visited \/ (visited' = visited + 1 /\ visited = i)]_vars
    /\ [](pdfPc = "para" => (visited = i /\ wordsVisited = Len(paraWords)))
    /\ [](pdfPc = "done" => visited = nParas)
    /\ [](currentPageIndex <= linesDrawn + headingsSeen)
    /\ [](pdfPc = "para" => paraPages <= Len(lines) + HeadingAllowance)

\* C4 witness: a finished document of several paragraphs and pages, whose
\* last paragraph ran over a page break.
C4_Witness ==
    /\ pdfPc = "done"
    /\ nParas >= 3
    /\ currentPageIndex >= 2
    /\ paraPages >= 1
    /\ Len(lines) >= 2

\* The words of the lines, in the order drawn
RECURSIVE Flatten(_)
Flatten(ls) == IF ls = <<>> THEN <<>> ELSE Head(ls) \o Flatten(Tail(ls))

\* C12: re-flow loses nothing. While a paragraph is laid out, the lines drawn
\* so far, the line being filled and the words still to visit make up the
\* paragraph's words in their order; once it is finished, the words of its
\* drawn lines are exactly its words, and no drawn line is empty.
C12_ReflowLosesNothing ==
    /\ pdfPc = "word" => Flatten(lines) \o currentLine \o words = paraWords
    /\ pdfPc \in {"para", "done"} => Flatten(lines) = paraWords
    /\ \A n \in DOMAIN lines : lines[n] # <<>>

\* C12 witness: a finished paragraph of several lines that ran over a page
\* break and holds words wider than the text area.
C12_Witness ==
    /\ pdfPc = "para"
    /\ Len(lines) >= 3
    /\ paraPages >= 1
    /\ \E n \in DOMAIN paraWords : paraWords[n] > pageWidth - (margin * 2)
    /\ Flatten(lines) = paraWords

-----------------------------------------------------------------------------
(* Properties of the POST handler *)

Responded == postPc = "responded"

NoServiceCalls ==
    /\ embedCalls = 0
    /\ pineconeCalls = 0
    /\ chatCalls = 0
    /\ imageRequests = <<>>
    /\ generatorCalled = "none"
    /\ response.document = ""

Ok(fmt) ==
    /\ response.status = 200
    /\ response.mimeType =
         (IF fmt = "pdf" THEN "application/pdf"
          ELSE IF fmt = "docx"
          THEN "application/vnd.openxmlformats-officedocument.wordprocessingml.document"
          ELSE "application/vnd.openxmlformats-officedocument.presentationml.presentation")
    /\ response.fileExtension = (IF fmt = "ppt" THEN "pptx" ELSE fmt)
    /\ generatorCalled = fmt
    /\ response.document = fmt

OkText ==
    /\ response.status = 200
    /\ response.mimeType = "text/plain"
    /\ response.fileExtension = "txt"
    /\ generatorCalled = "none"
    /\ response.document = "content"

\* The handler got past the emptiness check: content has been generated.
ContentGenerated == Responded /\ response.at = "document"

RequestedFormat == IF req.outputFormat = "absent" THEN "pdf" ELSE req.outputFormat

\* C5 as stated: once content has been generated, pdf, docx and ppt yield the
\* document of their generator with its MIME type and extension, and any
\* other outputFormat yields the text/plain .txt document.
C5_FormatDecidesDocument ==
    ContentGenerated =>
        IF RequestedFormat \in {"pdf", "docx", "ppt"} THEN Ok(RequestedFormat) ELSE OkText

\* The post-processed content is blank: it held nothing but markup characters.
CleanedBlank == whitepaperContent.real = 0

\* C5 amended: as stated, except that for pdf the document is returned only
\* when the post-processed content is not blank; when it is blank,
\* generateWhitepaperPDF is called and throws, and the answer is 500.
C5_FormatDecidesDocumentUnlessBlankPdf ==
    ContentGenerated =>
        IF RequestedFormat = "pdf" /\ CleanedBlank
        THEN /\ response.status = 500
             /\ response.error = "Failed to generate whitepaper"
             /\ generatorCalled = "pdf"
             /\ response.document = ""
        ELSE IF RequestedFormat \in {"pdf", "docx", "ppt"} THEN Ok(RequestedFormat)
        ELSE OkText

\* C5 witness: a docx answered after continuation rounds and image requests,
\* for content that post-processing left blank.
C5_Witness ==
    /\ ContentGenerated
    /\ RequestedFormat = "docx"
    /\ Ok("docx")
    /\ CleanedBlank
    /\ continuationCalls >= 2
    /\ Len(imageRequests) >= 2

\* C6: a body that cannot be parsed is answered 400 "Invalid JSON in request
\* body", a missing or empty prompt 400 "Prompt is required", and in both
\* cases no service is called and no document built.
C6_BadRequestIs400 ==
    Responded =>
        /\ req.body = "unparseable" =>
              /\ response.status = 400
              /\ response.error = "Invalid JSON in request body"
              /\ NoServiceCalls
        /\ (req.body # "unparseable" /\ req.prompt \in {"absent", "empty"}) =>
              /\ response.status = 400
              /\ response.error = "Prompt is required"
              /\ NoServiceCalls

\* What the code does achieve: the same for every body but the JSON value null.
C6_BadRequestIs400UnlessNull ==
    Responded =>
        /\ req.body = "unparseable" =>
              /\ response.status = 400
              /\ response.error = "Invalid JSON in request body"
              /\ NoServiceCalls
        /\ (req.body \notin {"unparseable", "null"} /\ req.prompt \in {"absent", "empty"}) =>
              /\ response.status = 400
              /\ response.error = "Prompt is required"
              /\ NoServiceCalls
        /\ req.body = "null" => (response.status = 500 /\ NoServiceCalls)

\* The content that reached the emptiness check is empty or white space only.
GeneratedBlank == ~generated.none /\ generated.real + generated.mark = 0

\* C7: if the initial chatCompletion call throws, or the generated content is
\* empty or white space only, the answer is 500 "Failed to generate
\* whitepaper content..." and neither an image nor a document is generated.
C7_NoContentIs500 ==
    (Responded /\ (chatFailed \/ GeneratedBlank)) =>
        /\ response.status = 500
        /\ response.error \in
             {"Failed to generate whitepaper content",
              "Failed to generate whitepaper content. The AI response was empty."}
        /\ imageRequests = <<>>
        /\ imagesLen = 0
        /\ generatorCalled = "none"
        /\ response.document = ""

\* C7 witness: white space only, after a continuation round that failed.
C7_Witness ==
    /\ Responded
    /\ GeneratedBlank
    /\ generated.ws
    /\ continuationCalls = 1
    /\ WantsImages(req)
    /\ response.status = 500

\* C8: the continuation loop makes at most 10 chatCompletion calls (11 in
\* all per request) and ends: a round that stays in the loop raises
\* continuationRound, which never passes 10, and the loop is never stuck.
C8_ContinuationBounded ==
    /\ [](continuationCalls <= 10 /\ chatCalls <= 11)
    /\ [](chatCalls <= continuationCalls + 1)
    /\ [](continuationRound <= 10)
    /\ [][(postPc = "continue" /\ postPc' = "continue")
            => continuationRound' = continuationRound + 1]_vars
    /\ [](postPc = "continue" => ENABLED NextPost)

\* C8 witness: all ten continuation rounds were used.
C8_Witness ==
    /\ Responded
    /\ continuationCalls = 10
    /\ chatCalls = 11

-----------------------------------------------------------------------------
(* Properties of the client component *)

\* C9: after any edits of the page-count field, the numPages state and the
\* numPages sent to /api/whitepaper/generate are integers from 1 to 50.
C9_NumPagesInRange ==
    /\ numPages \in 1..50
    /\ sentNumPages # NotSent => sentNumPages \in 1..50

\* C9 witness: an oversized value was clamped to 50 and sent, and a later
\* edit to an invalid value left the state at 1.
C9_Witness ==
    /\ sentNumPages = 50
    /\ numPages = 1

-----------------------------------------------------------------------------
(* Properties of the download history *)

\* Most recent first: ids (save times) strictly decrease along the list.
MostRecentFirst(files) ==
    \A a, b \in DOMAIN files : a < b => files[a].id > files[b].id

\* s is the sequence t cut to its first n elements
IsPrefixOfLength(s, t, n) ==
    /\ Len(s) = n
    /\ n <= Len(t)
    /\ \A k \in 1..n : s[k] = t[k]

\* C10: the stored list holds at most 50 files, most recent first; a save puts
\* the new file at index 0 and keeps the files stored before behind it, in
\* their order, dropping only the oldest beyond 50; a delete keeps the order.
C10_HistoryBounded ==
    /\ [](Len(stored) <= 50 /\ MostRecentFirst(stored))
    /\ [][saves' = saves + 1 =>
            /\ stored' # <<>>
            /\ stored'[1].id = saves'
            /\ IsPrefixOfLength(Tail(stored'), stored,
                                IF Len(stored) < 50 THEN Len(stored) ELSE 49)]_vars

\* C10 witness: a full list after more than 50 saves and a delete, so that
\* the oldest entries have been dropped.
C10_Witness ==
    /\ Len(stored) = 50
    /\ saves = 52
    /\ deletes = 1
    /\ stored[50].id > 1

-----------------------------------------------------------------------------
(* Properties of the media-generation route *)

BothKeysImage ==
    /\ mediaReq.googleApiKey
    /\ mediaReq.openaiApiKey
    /\ mediaReq.type \in {"absent", "image"}

\* C11: for type 'image' with both API keys set, the first call goes to
\* Gemini; OpenAI is called at most once, directly after a Gemini attempt
\* that threw, answered with a non-OK status, or answered OK without an image;
\* and a 200 response names the service whose call produced the image.
C11_GeminiFirst ==
    BothKeysImage =>
        /\ mediaCalls # <<>> => mediaCalls[1].service = "google"
        /\ Len(mediaCalls) <= 2
        /\ \A k \in DOMAIN mediaCalls :
              mediaCalls[k].service = "openai" =>
                  /\ k = 2
                  /\ mediaCalls[1].outcome \in {"throw", "notOk", "noImage"}
        /\ mediaResponse.status = 200 =>
              /\ mediaCalls # <<>>
              /\ mediaResponse.model = mediaCalls[Len(mediaCalls)].service
              /\ mediaCalls[Len(mediaCalls)].outcome
                     \in {"inlineData", "textDataUrl", "imagesArray", "url"}

\* C11 witness: Gemini answered OK without an image and DALL-E produced it.
C11_Witness ==
    /\ BothKeysImage
    /\ mediaPc = "responded"
    /\ mediaCalls = <<MediaCall("google", "noImage"), MediaCall("openai", "url")>>
    /\ mediaResponse.status = 200
    /\ mediaResponse.model = "openai"

-----------------------------------------------------------------------------
(* Properties of the three generators *)

\* The entries of a history of placements with the given value in a field
DrawsFor(target) == { n \in DOMAIN drawnImages : drawnImages[n].target = target }
DrawsOn(page) == { n \in DOMAIN drawnImages : drawnImages[n].page = page }
PlacementsFor(target) == { n \in DOMAIN placements : placements[n].target = target }
PlacementsAt(at) == { n \in DOMAIN placements : placements[n].at = at }

\* C13: in the PDF, the DOCX and the PPT generator, at most one image (or
\* placeholder) is placed per target pageIndex and at most one on any page,
\* estimated page or slide, also when several images carry one pageIndex.
C13_OneImagePerPage ==
    /\ \A n \in DOMAIN drawnImages :
          /\ Cardinality(DrawsFor(drawnImages[n].target)) = 1
          /\ Cardinality(DrawsOn(drawnImages[n].page)) = 1
    /\ \A n \in DOMAIN placements :
          /\ Cardinality(PlacementsFor(placements[n].target)) = 1
          /\ Cardinality(PlacementsAt(placements[n].at)) = 1

\* C13 witness: a DOCX run that was given two images for page 1 and has
\* placed one placeholder for it, and one for page 2.
C13_Witness ==
    /\ genPc = "done"
    /\ numSlides = 0
    /\ Cardinality({ n \in DOMAIN docImages : docImages[n].pageIndex = 1 }) = 2
    /\ Cardinality(PlacementsFor(1)) = 1
    /\ Cardinality(PlacementsFor(2)) = 1

-----------------------------------------------------------------------------
(* Properties of the image loops of the POST handler *)

\* C images per P pages and T = min(numPages, 50), read off the request
FreqC == req.freq.c
FreqP == req.freq.p
PagesT == IF req.numPages < 50 THEN req.numPages ELSE 50

AsksForImages == req.freq.parsed /\ FreqC >= 1 /\ FreqP >= 1

\* The two image loops have run to their end.
ImagesDone ==
    /\ AsksForImages
    /\ \/ postPc = "document"
       \/ postPc = "responded" /\ response.at = "document"

\* C14: for C images per P pages, the handler issues exactly
\* floor(T / P) * C image-generation requests, the number it announces.
C14_RequestsAsAnnounced ==
    ImagesDone =>
        /\ announced = (PagesT \div FreqP) * FreqC
        /\ Len(imageRequests) = announced

\* What the code does achieve: never more requests than announced, and
\* exactly that many for one image per P pages.
C14_RequestsAtMostAnnounced ==
    /\ AsksForImages /\ postPc \in {"images", "document", "responded"} /\ announced >= 0 =>
          /\ announced = (PagesT \div FreqP) * FreqC
          /\ Len(imageRequests) <= announced
    /\ ImagesDone /\ FreqC = 1 => Len(imageRequests) = announced

\* C15: the page indices for which images are requested are pairwise distinct.
C15_TargetsDistinct ==
    \A m, n \in DOMAIN imageRequests :
        m # n => imageRequests[m] # imageRequests[n]

\* What the code does achieve: distinct targets when a group has no more
\* images than pages (C <= P).
C15_TargetsDistinctWhenSparse ==
    AsksForImages /\ FreqC <= FreqP =>
        \A m, n \in DOMAIN imageRequests :
            m # n => imageRequests[m] # imageRequests[n]

-----------------------------------------------------------------------------
(* Properties of the grounding step of the POST handler *)

\* A failed queryPinecone does not fail the request: nothing is answered from
\* the frameworks loop, an answer from the embedding step comes before any
\* vector-database call, and a request with a failed query is answered only
\* after content generation was called.
PineconeFailureTolerated ==
    /\ response.at # "frameworks"
    /\ response.at = "embed" => (pineconeCalls = 0 /\ ~pineconeFailed)
    /\ (pineconeFailed /\ postPc = "responded") => chatCalls >= 1
    /\ (pineconeFailed /\ postPc \in {"frameworks", "chat"}) => response = NoResponse

\* C17: grounding is optional. A failed queryPinecone, for the main prompt or
\* for a framework, does not fail the request, which goes on to content
\* generation; and a framework id that is not one of the frameworkQueries
\* triggers no embedding and no vector-database query.
C17_GroundingOptional ==
    /\ PineconeFailureTolerated
    /\ fwEmbedded \subseteq KnownFrameworks
    /\ fwQueried \subseteq KnownFrameworks

\* What the code does achieve: the same, for ids that are no property name
\* of the object at all, inherited ones included.
C17_GroundingOptionalForNonProperties ==
    /\ PineconeFailureTolerated
    /\ fwEmbedded \subseteq KnownFrameworks \cup InheritedKeys
    /\ fwQueried \subseteq fwEmbedded

====
